---- MODULE Spec2Model ----
(***************************************************************************)
(* A model of the LSP analysis server: the document store, the extraction  *)
(* of diagnostics from provider text, the retry cycle of                   *)
(* updateDocumentStore, the document event handlers and the two backend    *)
(* adapters (Ollama: one request per chunk; OpenAI: one request per rule   *)
(* and chunk).                                                             *)
(*                                                                         *)
(* Go strings are sequences of one-character strings, "" is << >>.         *)
(* A Go slice is a record [nil, elems]: a nil slice and an empty non-nil   *)
(* slice both have no elements but differ in the nil test.                 *)
(* A Go map is a function whose domain is the set of keys present; a read  *)
(* of an absent key yields the zero value of the element type.             *)
(***************************************************************************)
EXTENDS Integers, Sequences, FiniteSets, TLC

(***************************************************************************)
(* Go values.                                                              *)
(***************************************************************************)
NilSlice == [nil |-> TRUE, elems |-> << >>]

MakeSlice(s) == [nil |-> FALSE, elems |-> s]

\* append(a, b...): appending nothing to a nil slice leaves it nil
AppendSlice(a, b) ==
    IF Len(b.elems) = 0 THEN a ELSE [nil |-> FALSE, elems |-> a.elems \o b.elems]

MapGet(m, k, zero) == IF k \in DOMAIN m THEN m[k] ELSE zero

MapPut(m, k, v) == [x \in (DOMAIN m) \cup {k} |-> IF x = k THEN v ELSE m[x]]

MapDelete(m, k) == [x \in (DOMAIN m) \ {k} |-> m[x]]

EmptyMap == [x \in {} |-> 0]

HasPrefix(s, p) == Len(p) <= Len(s) /\ SubSeq(s, 1, Len(p)) = p

TrimPrefix(s, p) == IF HasPrefix(s, p) THEN SubSeq(s, Len(p) + 1, Len(s)) ELSE s

\* index of the first x in s at or after i, 0 when there is none
RECURSIVE IndexFrom(_, _, _)
IndexFrom(s, x, i) ==
    IF i > Len(s) THEN 0
    ELSE IF s[i] = x THEN i
    ELSE IndexFrom(s, x, i + 1)

\* strings.Split(s, sep) for a one-character separator: always at least one
\* element, the last one being what follows the last separator
RECURSIVE Split(_, _)
Split(s, sep) ==
    LET k == IndexFrom(s, sep, 1) IN
    IF k = 0 THEN << s >>
    ELSE << SubSeq(s, 1, k - 1) >> \o Split(SubSeq(s, k + 1, Len(s)), sep)

(***************************************************************************)
(* The document store (lspDocuments).                                      *)
(***************************************************************************)
\* sha256.Sum256: modelled as injective (no collisions); the zero value of
\* [32]byte, read from data_hash for an absent key, is the digest of no text
Sum256(data) == << "sha256", data >>

ZeroHash == << "zero", << >> >>

NewLspDocuments ==
    [data |-> EmptyMap, data_hash |-> EmptyMap, analysis |-> EmptyMap,
     diagnostics |-> EmptyMap]

\* Faulty variants of store operations. The properties at the end of the
\* module are checked to tell each operation from its variant.
\* Store without the comparison of hashes
StoreAlways(d, uri, data) ==
    [docs |-> [d EXCEPT !.data = MapPut(d.data, uri, data),
                        !.data_hash = MapPut(d.data_hash, uri, Sum256(data))],
     err |-> FALSE]

\* StoreAnalysis that also drops the diagnostics of the uri
StoreAnalysisClearingDiagnostics(d, uri, analysis) ==
    [docs |-> [d EXCEPT !.analysis = MapPut(d.analysis, uri, analysis),
                        !.diagnostics = MapDelete(d.diagnostics, uri)],
     err |-> FALSE]

\* StoreAnalysis that stores nothing
StoreAnalysisDropped(d, uri, analysis) == [docs |-> d, err |-> FALSE]

\* StoreAnalysis that keeps the analysis text the uri already has
StoreAnalysisOnce(d, uri, analysis) ==
    [docs |-> IF uri \in DOMAIN d.analysis THEN d
              ELSE [d EXCEPT !.analysis = MapPut(d.analysis, uri, analysis)],
     err |-> FALSE]

\* every store operation yields the store after it and whether it returned an
\* error; the read operations also yield the value read
Load(d, uri) ==
    IF MapGet(d.data, uri, << >>) = << >>
    THEN [val |-> << >>, err |-> TRUE]
    ELSE [val |-> d.data[uri], err |-> FALSE]

Store(d, uri, data) ==
    LET hash == Sum256(data) IN
    IF MapGet(d.data_hash, uri, ZeroHash) = hash
    THEN [docs |-> d, err |-> TRUE]
    ELSE [docs |-> [d EXCEPT !.data = MapPut(d.data, uri, data),
                             !.data_hash = MapPut(d.data_hash, uri, hash)],
          err |-> FALSE]

Delete(d, uri) ==
    [docs |-> [d EXCEPT !.data = MapDelete(d.data, uri),
                        !.data_hash = MapDelete(d.data_hash, uri)],
     err |-> FALSE]

StoreAnalysis(d, uri, analysis) ==
    [docs |-> [d EXCEPT !.analysis = MapPut(d.analysis, uri, analysis)],
     err |-> FALSE]

LoadAnalysis(d, uri) ==
    IF MapGet(d.analysis, uri, << >>) = << >>
    THEN [val |-> << >>, err |-> TRUE]
    ELSE [val |-> d.analysis[uri], err |-> FALSE]

GetDiagnostics(d, uri) ==
    IF MapGet(d.diagnostics, uri, NilSlice).nil
    THEN [val |-> NilSlice, err |-> TRUE]
    ELSE [val |-> d.diagnostics[uri], err |-> FALSE]

UpdateDiagnostics(d, uri, diagnostics) ==
    [docs |-> [d EXCEPT !.diagnostics = MapPut(d.diagnostics, uri, diagnostics)],
     err |-> FALSE]

(***************************************************************************)
(* Provider text and the extraction of diagnostics (DiagnosticsUnmarshal). *)
(* Provider text is a string over the characters                           *)
(*   "[" "]" "{" "}" ","  brackets, braces and the comma of JSON,          *)
(*   " " "\n"             white space,                                     *)
(*   "x"                  a character that is legal nowhere in JSON,       *)
(*   a key of Members     the member list of one JSON object, taken as     *)
(*                        one character,                                   *)
(*   "t"                  a member list that is legal JSON but gives       *)
(*                        line_number a string (a decoding type error).    *)
(***************************************************************************)
LspDiagnostic(uri, line, source, rule, severity, description, recommendation) ==
    [Uri |-> uri, LineNumber |-> line, Source |-> source, Rule |-> rule,
     Severity |-> severity, Description |-> description,
     Recommendation |-> recommendation]

\* what encoding/json decodes a member list into; a field the member list
\* does not name keeps its zero value
Members ==
    [o \in {"o1", "o2", "o3"} |->
        CASE o = "o1" -> LspDiagnostic("", 1, "misra", "R1", "mandatory", "d", "r")
          [] o = "o2" -> LspDiagnostic("z.c", 2, "misra", "R2", "advisory", "e", "s")
          [] o = "o3" -> LspDiagnostic("", 0, "", "", "", "", "")]

\* the LspDiagnostic decoded from the empty object {}
ZeroDiagnostic == LspDiagnostic("", 0, "", "", "", "", "")

IsSpace(c) == c \in {" ", "\n"}

\* first index at or after i that holds no white space (Len(s)+1 if none)
RECURSIVE SkipSpace(_, _)
SkipSpace(s, i) ==
    IF i > Len(s) THEN i
    ELSE IF IsSpace(s[i]) THEN SkipSpace(s, i + 1)
    ELSE i

\* last index at or before i that holds no white space (0 if none)
RECURSIVE SkipSpaceBack(_, _)
SkipSpaceBack(s, i) ==
    IF i < 1 THEN 0
    ELSE IF IsSpace(s[i]) THEN SkipSpaceBack(s, i - 1)
    ELSE i

\* the regular expression \[\s*\{[^]]+\}\s*\] anchored at i: the index where
\* its match ends, 0 when it does not match there. Nothing it matches before
\* its last character can be "]", so the match ends at the first "]" after
\* the brace, which white space and then "}" must precede, with at least one
\* character between the braces.
MatchEnd(s, i) ==
    IF i > Len(s) \/ s[i] # "[" THEN 0
    ELSE LET j == SkipSpace(s, i + 1) IN
         IF j > Len(s) \/ s[j] # "{" THEN 0
         ELSE LET e == IndexFrom(s, "]", j + 1) IN
              IF e = 0 THEN 0
              ELSE LET c == SkipSpaceBack(s, e - 1) IN
                   IF s[c] = "}" /\ c >= j + 2 THEN e ELSE 0

\* re.FindAllString(analysis, -1): the leftmost matches, none overlapping.
\* A match starts at a "[", so the scan goes from one "[" to the next.
RECURSIVE FindAllString(_, _)
FindAllString(s, i) ==
    LET b == IndexFrom(s, "[", i) IN
    IF b = 0 THEN << >>
    ELSE LET e == MatchEnd(s, b) IN
         IF e = 0 THEN FindAllString(s, b + 1)
         ELSE << SubSeq(s, b, e) >> \o FindAllString(s, e + 1)

\* json.Unmarshal of the elements of an array, read from index i on.
\* st is what the decoder has just read: "value" an opening bracket or a
\* comma, "open" an opening brace, "member" a member list, "after" a closing
\* brace. A syntax error anywhere, or a type error in any element, makes the
\* whole call return an error.
RECURSIVE UnmarshalFrom(_, _, _, _)
UnmarshalFrom(s, i, st, acc) ==
    IF i > Len(s) THEN [val |-> NilSlice, err |-> TRUE]
    ELSE LET c == s[i] IN
      CASE IsSpace(c) -> UnmarshalFrom(s, i + 1, st, acc)
        [] ~IsSpace(c) /\ st = "value" /\ c = "{" ->
               UnmarshalFrom(s, i + 1, "open", acc)
        [] ~IsSpace(c) /\ st = "open" /\ c \in DOMAIN Members ->
               UnmarshalFrom(s, i + 1, "member", Append(acc, Members[c]))
        [] ~IsSpace(c) /\ st = "open" /\ c = "}" ->
               UnmarshalFrom(s, i + 1, "after", Append(acc, ZeroDiagnostic))
        [] ~IsSpace(c) /\ st = "member" /\ c = "}" ->
               UnmarshalFrom(s, i + 1, "after", acc)
        [] ~IsSpace(c) /\ st = "after" /\ c = "," ->
               UnmarshalFrom(s, i + 1, "value", acc)
        [] ~IsSpace(c) /\ st = "after" /\ c = "]" /\ i = Len(s) ->
               [val |-> MakeSlice(acc), err |-> FALSE]
        [] OTHER -> [val |-> NilSlice, err |-> TRUE]

\* json.Unmarshal([]byte(match), &diagnostics)
Unmarshal(match) ==
    IF Len(match) = 0 \/ match[1] # "[" THEN [val |-> NilSlice, err |-> TRUE]
    ELSE UnmarshalFrom(match, 2, "value", << >>)

\* the text holds a JSON array of objects that decodes into diagnostics:
\* some substring from a "[" to a "]" does. No array of objects holds a "]"
\* before its end, so the "]" is the first one after the "[".
HasJsonArray(s) ==
    \E b \in 1..Len(s) :
        /\ s[b] = "["
        /\ LET e == IndexFrom(s, "]", b + 1) IN
           e # 0 /\ ~Unmarshal(SubSeq(s, b, e)).err

\* a faulty variant of AppendMatches: the loop left at the first match that
\* does not decode
RECURSIVE AppendMatchesAborting(_, _)
AppendMatchesAborting(matches, k) ==
    IF k > Len(matches) THEN << >>
    ELSE LET r == Unmarshal(matches[k]) IN
         IF r.err THEN << >>
         ELSE r.val.elems \o AppendMatchesAborting(matches, k + 1)

\* a faulty variant of StampUri: the uri of the payload kept when it has one
StampUriIfEmpty(all, uri) ==
    [all EXCEPT !.elems = [k \in DOMAIN all.elems |->
                              IF all.elems[k].Uri = ""
                              THEN [all.elems[k] EXCEPT !.Uri = uri]
                              ELSE all.elems[k]]]

\* the loop over the matches from the k-th on: the elements it appends to
\* allDiagnostics; a match that does not decode is skipped
RECURSIVE AppendMatches(_, _)
AppendMatches(matches, k) ==
    IF k > Len(matches) THEN << >>
    ELSE LET r == Unmarshal(matches[k]) IN
         (IF r.err THEN << >> ELSE r.val.elems) \o AppendMatches(matches, k + 1)

\* allDiagnostics[i].Uri = uri
StampUri(all, uri) ==
    [all EXCEPT !.elems = [k \in DOMAIN all.elems |->
                              [all.elems[k] EXCEPT !.Uri = uri]]]

\* allDiagnostics is declared without a value, so it is nil until the first
\* append of at least one element
DiagnosticsUnmarshal(uri, analysis) ==
    LET matches == FindAllString(analysis, 1) IN
    IF Len(matches) = 0 THEN [val |-> NilSlice, err |-> TRUE]
    ELSE [val |-> StampUri(AppendSlice(NilSlice,
                                       MakeSlice(AppendMatches(matches, 1))),
                           uri),
          err |-> FALSE]

(***************************************************************************)
(* The chunker (preprocessDocument, preprocessDocument2).                  *)
(***************************************************************************)
\* a faulty variant of LoadPrompt: a file that cannot be read gives the
\* bytes of a prompt along with the error
LoadPromptWithBytesOnError(file) ==
    IF file.ok THEN [val |-> file.content, err |-> FALSE]
    ELSE [val |-> << "p", "\n" >>, err |-> TRUE]

\* os.ReadFile / LoadPrompt of a file [ok, content]: no bytes and an error
\* when the file cannot be read
LoadPrompt(file) ==
    IF file.ok THEN [val |-> file.content, err |-> FALSE]
    ELSE [val |-> << >>, err |-> TRUE]

chunkSize == 30

\* fmt.Sprintf("Line %d: %s\n", j+1, lines[j]) for j in [i, end): a chunk is
\* the sequence of its numbered lines
ChunkAt(lines, i) ==
    LET end == IF i + chunkSize > Len(lines) THEN Len(lines) ELSE i + chunkSize IN
    [j \in 1..(end - i) |-> [line |-> i + j, content |-> lines[i + j]]]

\* for i := 0; i < len(lines); i += chunkSize (i counts lines already taken)
RECURSIVE ChunksFrom(_, _)
ChunksFrom(lines, i) ==
    IF i >= Len(lines) THEN << >>
    ELSE << ChunkAt(lines, i) >> \o ChunksFrom(lines, i + chunkSize)

\* the split on "\n" is that of every GOOS but windows
preprocessDocument(document, retryPromptFile) ==
    LET retryPrompt == LoadPrompt(retryPromptFile).val
        doc == IF HasPrefix(document, retryPrompt)
               THEN TrimPrefix(document, retryPrompt)
               ELSE document
    IN  ChunksFrom(Split(doc, "\n"), 0)

(***************************************************************************)
(* The server: one lspServer with its store and one backend adapter,       *)
(* handler goroutines, the provider and the files the handlers read.       *)
(***************************************************************************)
\* goroutines that run handlers
Threads == {1, 2}

URIs == {"a.c"}

\* document texts: the empty text, one line, two lines, and two lines of
\* which the first is the line of the retry prompt
Texts == { << >>, << "a" >>, << "b", "\n", "a" >>, << "p", "\n", "a" >> }

\* what the retry prompt file holds, from the start of the server on:
\* unreadable, or an instruction line
RetryPromptFiles ==
    { [ok |-> FALSE, content |-> << >>],
      [ok |-> TRUE, content |-> << "p", "\n" >>] }

\* what the provider can answer: no array at all, an array-shaped span that
\* is not JSON, an array of one diagnostic, and an array of two diagnostics
\* followed by a span that is not JSON
Responses ==
    { << "x" >>,
      << "[", "{", "x", "}", "]" >>,
      << "[", "{", "o1", "}", "]" >>,
      << "[", "{", "o2", "}", ",", "{", "o1", "}", "]", "[", "{", "x", "}", "]" >> }

BackendKinds == {"ollama", "openai"}

\* const maxRetries = 5
maxRetries == 5

\* len(misraRules)
NumRules == 29

\* responseBuilder after n answers: each answer and a newline
RECURSIVE Built(_, _)
Built(answer, n) ==
    IF n = 0 THEN << >> ELSE answer \o << "\n" >> \o Built(answer, n - 1)

\* DiagnosticsUnmarshal on the texts a sweep over one chunk returns,
\* computed once
SweepTexts == { Built(answer, n) : answer \in Responses, n \in {1, NumRules} }

UnmarshalOnce ==
    [uri \in URIs |-> [analysis \in SweepTexts |->
                          DiagnosticsUnmarshal(uri, analysis)]]

DiagnosticsUnmarshalOf(uri, analysis) ==
    IF uri \in URIs /\ analysis \in SweepTexts
    THEN UnmarshalOnce[uri][analysis]
    ELSE DiagnosticsUnmarshal(uri, analysis)

VARIABLES
    documents,        \* l.documents
    backend,          \* which adapter Start() installed in l.backend
    mutex,            \* b.mutex: 0 when free, else the goroutine holding it
    cancel,           \* b.cancel: 0 when nil, else the goroutine whose request context it cancels
    ctxCancelled,     \* per goroutine: its current request context is cancelled
    retryPromptFile,  \* the file *ParamRetryPromptFile names
    th,               \* per goroutine: the handler it runs and the handler's locals
    cobs,             \* per goroutine: what its current or last updateDocumentStore call did
    hobs,             \* per goroutine: what its current or last handler did
    call              \* the last call of a store operation made from outside the server

vars == << documents, backend, mutex, cancel, ctxCancelled, retryPromptFile,
           th, cobs, hobs, call >>

\* a goroutine that runs no handler
IdleThread ==
    [pc |-> "idle", h |-> "none", uri |-> "", text |-> << >>, direct |-> FALSE,
     attempts |-> 0, instruction |-> << >>, chunks |-> << >>,
     analysis |-> << >>, diagnostics |-> NilSlice]

\* result: how the call returned; sweeps: its AnalyseDocument calls; hist:
\* for each sweep that returned text, whether the text holds a JSON array
\* that decodes; last: the text of the last such sweep; docs0: the store
\* when the call began; updates: its UpdateDiagnostics calls
NoCycle ==
    [uri |-> "", result |-> "none", sweeps |-> 0, hist |-> << >>,
     last |-> << >>, docs0 |-> NewLspDocuments, updates |-> 0]

\* same: the content delivered has the hash stored for the uri; calls: the
\* backend calls of the handler; docs0: the store when the handler began;
\* ret: what the handler returned
NoHandler ==
    [h |-> "none", uri |-> "", same |-> FALSE, calls |-> 0, updates |-> 0,
     docs0 |-> NewLspDocuments, ret |-> "none"]

NoCall == [op |-> "none", uri |-> "", arg |-> << >>, err |-> FALSE]

Init ==
    /\ documents = NewLspDocuments
    /\ backend \in BackendKinds
    /\ mutex = 0
    /\ cancel = 0
    /\ ctxCancelled = [t \in Threads |-> FALSE]
    /\ retryPromptFile \in RetryPromptFiles
    /\ th = [t \in Threads |-> IdleThread]
    /\ cobs = [t \in Threads |-> NoCycle]
    /\ hobs = [t \in Threads |-> NoHandler]
    /\ call = NoCall

\* the stored hash of uri equals the hash of text
SameHash(d, uri, text) == MapGet(d.data_hash, uri, ZeroHash) = Sum256(text)

\* what ConvertFileURIToPath and ReadFileContent give a handler: an error
\* from either, or the content of the file
FileReads ==
    { [ok |-> FALSE, content |-> << >>] } \cup
    { [ok |-> TRUE, content |-> x] : x \in Texts }

\* a handler is dispatched to the idle goroutine t
Dispatch(t) ==
    /\ th[t].pc = "idle"
    /\ cobs' = [cobs EXCEPT ![t] = NoCycle]

Started(h, uri, text, ret) ==
    [h |-> h, uri |-> uri, same |-> SameHash(documents, uri, text),
     calls |-> 0, updates |-> 0, docs0 |-> documents, ret |-> ret]

\* the locals of a handler that is about to call updateDocumentStore(uri, text)
CallUpdateDocumentStore(h, uri, text) ==
    [IdleThread EXCEPT !.pc = "store", !.h = h, !.uri = uri, !.text = text]

\* the locals of a handler that is about to call AnalyseDocument
CallAnalyseDocument(rec) == [rec EXCEPT !.pc = "lock"]

\* the document a handler passes to AnalyseDocument: the change handler the
\* content of the file, updateDocumentStore instruction+text
DocumentArgument(rec) ==
    IF rec.direct THEN rec.text ELSE rec.instruction \o rec.text

(***************************************************************************)
(* The handlers, up to their first call into the store or the backend.     *)
(***************************************************************************)
OnDidOpenTextDocument(t) ==
    \E uri \in URIs, text \in Texts :
        /\ Dispatch(t)
        /\ th' = [th EXCEPT ![t] = CallUpdateDocumentStore("open", uri, text)]
        /\ hobs' = [hobs EXCEPT ![t] = Started("open", uri, text, "running")]
        /\ UNCHANGED << documents, backend, call, mutex, cancel, ctxCancelled,
                        retryPromptFile >>

\* the analysis of the file's content, before anything is stored
OnDidChangeTextDocument(t) ==
    \E uri \in URIs, file \in FileReads :
        /\ Dispatch(t)
        /\ IF ~file.ok
           THEN /\ th' = th
                /\ hobs' = [hobs EXCEPT ![t] =
                              Started("change", uri, file.content, "FileError")]
           ELSE /\ th' = [th EXCEPT ![t] =
                            CallAnalyseDocument(
                                [IdleThread EXCEPT !.h = "change", !.uri = uri,
                                                   !.text = file.content,
                                                   !.direct = TRUE])]
                /\ hobs' = [hobs EXCEPT ![t] =
                              Started("change", uri, file.content, "running")]
        /\ UNCHANGED << documents, backend, call, mutex, cancel, ctxCancelled,
                        retryPromptFile >>

OnDidSaveTextDocument(t) ==
    \E uri \in URIs, file \in FileReads :
        /\ Dispatch(t)
        /\ IF ~file.ok
           THEN /\ th' = th
                /\ hobs' = [hobs EXCEPT ![t] =
                              Started("save", uri, file.content, "FileError")]
           ELSE IF file.content # << >>
           THEN /\ th' = [th EXCEPT ![t] =
                            CallUpdateDocumentStore("save", uri, file.content)]
                /\ hobs' = [hobs EXCEPT ![t] =
                              Started("save", uri, file.content, "running")]
           ELSE /\ th' = th
                /\ hobs' = [hobs EXCEPT ![t] =
                              Started("save", uri, file.content, "nil")]
        /\ UNCHANGED << documents, backend, call, mutex, cancel, ctxCancelled,
                        retryPromptFile >>

\* the prefix the handler cuts out of the content is only passed on to the
\* provider, whose answer the model leaves open
OnCompletion(t) ==
    \E uri \in URIs, file \in FileReads, line \in 0..1 :
        /\ Dispatch(t)
        /\ IF ~file.ok
           THEN /\ th' = th
                /\ hobs' = [hobs EXCEPT ![t] =
                              Started("completion", uri, file.content, "FileError")]
           ELSE IF file.content = << >> \/ line >= Len(Split(file.content, "\n"))
           THEN /\ th' = th
                /\ hobs' = [hobs EXCEPT ![t] =
                              Started("completion", uri, file.content, "ContentError")]
           ELSE /\ th' = [th EXCEPT ![t] =
                            [IdleThread EXCEPT !.pc = "lock", !.h = "completion",
                                               !.uri = uri]]
                /\ hobs' = [hobs EXCEPT ![t] =
                              Started("completion", uri, file.content, "running")]
        /\ UNCHANGED << documents, backend, call, mutex, cancel, ctxCancelled,
                        retryPromptFile >>

(***************************************************************************)
(* updateDocumentStore, AnalyseDocument and CompleteCode, one action per   *)
(* step that reads or writes shared state.                                 *)
(***************************************************************************)
\* a faulty variant of HandlerResult: the change handler, too, returns what
\* its updateDocumentStore call returns
HandlerResultPassedOn(me, ret) == ret

\* a faulty variant of HandlerResult: every handler drops the result of the
\* call it is in and returns nil
HandlerResultDropped(me, ret) == "nil"

\* what the handler running with locals me returns when the call it is in
\* returns ret: the change handler returns the error of its own analysis
\* but drops the result of its updateDocumentStore call and returns nil
HandlerResult(me, ret) ==
    IF me.h = "change" /\ ~me.direct THEN "nil" ELSE ret

\* l.documents.Store(uri, text) and, unless it reports the text as stored
\* already, the start of the retry loop
StoreStep(t) ==
    LET me == th[t]
        r == Store(documents, me.uri, me.text)
    IN  /\ me.pc = "store"
        /\ documents' = r.docs
        /\ IF r.err
           THEN /\ th' = [th EXCEPT ![t] = IdleThread]
                /\ hobs' = [hobs EXCEPT ![t].ret = HandlerResult(me, "nil")]
                /\ cobs' = [cobs EXCEPT ![t] =
                              [NoCycle EXCEPT !.uri = me.uri,
                                              !.result = "AlreadyStored",
                                              !.docs0 = documents]]
           ELSE /\ th' = [th EXCEPT ![t] =
                            CallAnalyseDocument(
                                [me EXCEPT !.attempts = 1, !.instruction = << >>])]
                /\ hobs' = hobs
                /\ cobs' = [cobs EXCEPT ![t] =
                              [NoCycle EXCEPT !.uri = me.uri,
                                              !.result = "running",
                                              !.docs0 = documents]]
        /\ UNCHANGED << backend, call, mutex, cancel, ctxCancelled, retryPromptFile >>

\* a faulty variant of Lock: the caller goes on without waiting for the
\* mutex
LockWithoutMutex(t) ==
    LET me == th[t] IN
    /\ me.pc = "lock"
    /\ mutex' = t
    /\ IF backend = "ollama"
       THEN /\ ctxCancelled' = [x \in Threads |->
                                   IF x = t THEN FALSE
                                   ELSE IF x = cancel THEN TRUE
                                   ELSE ctxCancelled[x]]
            /\ cancel' = t
       ELSE UNCHANGED << ctxCancelled, cancel >>
    /\ IF me.h = "completion"
       THEN /\ th' = [th EXCEPT ![t].pc = "complete"]
            /\ cobs' = cobs
       ELSE /\ th' = [th EXCEPT ![t] =
                        [me EXCEPT !.pc = "request",
                                   !.chunks = preprocessDocument(DocumentArgument(me),
                                                                 retryPromptFile)]]
            /\ cobs' = IF me.direct THEN cobs
                       ELSE [cobs EXCEPT ![t].sweeps = @ + 1]
    /\ hobs' = [hobs EXCEPT ![t].calls = @ + 1]
    /\ UNCHANGED << documents, backend, call, retryPromptFile >>

\* b.mutex.Lock() and what follows it up to the first request. The Ollama
\* adapter calls the stored cancel function and stores a new one; the
\* OpenAI adapter has none. AnalyseDocument then chunks the document.
Lock(t) ==
    LET me == th[t] IN
    /\ me.pc = "lock"
    /\ mutex = 0
    /\ mutex' = t
    /\ IF backend = "ollama"
       THEN /\ ctxCancelled' = [x \in Threads |->
                                   IF x = t THEN FALSE
                                   ELSE IF x = cancel THEN TRUE
                                   ELSE ctxCancelled[x]]
            /\ cancel' = t
       ELSE UNCHANGED << ctxCancelled, cancel >>
    /\ IF me.h = "completion"
       THEN /\ th' = [th EXCEPT ![t].pc = "complete"]
            /\ cobs' = cobs
       ELSE /\ th' = [th EXCEPT ![t] =
                        [me EXCEPT !.pc = "request",
                                   !.chunks = preprocessDocument(DocumentArgument(me),
                                                                 retryPromptFile)]]
            /\ cobs' = IF me.direct THEN cobs
                       ELSE [cobs EXCEPT ![t].sweeps = @ + 1]
    /\ hobs' = [hobs EXCEPT ![t].calls = @ + 1]
    /\ UNCHANGED << documents, backend, call, retryPromptFile >>

\* the rules the sweep of the adapter runs over
SweepRules == IF backend = "openai" THEN NumRules ELSE 1

\* faulty variants of SweepRequests: the chunks taken last to first, and
\* the chunk loop outside the rule loop
SweepRequestsBackwards(rules, chunks) ==
    [k \in 1..(rules * Len(chunks)) |->
        [rule |-> ((k - 1) \div Len(chunks)) + 1,
         chunk |-> Len(chunks) - ((k - 1) % Len(chunks))]]

SweepRequestsChunkMajor(rules, chunks) ==
    [k \in 1..(rules * Len(chunks)) |->
        [rule |-> ((k - 1) % rules) + 1,
         chunk |-> ((k - 1) \div rules) + 1]]

\* the requests of one sweep, in the order of the loops: for the Ollama
\* adapter one per chunk, for the OpenAI adapter one per rule and chunk,
\* the rule loop outside the chunk loop
SweepRequests(rules, chunks) ==
    [k \in 1..(rules * Len(chunks)) |->
        [rule |-> ((k - 1) \div Len(chunks)) + 1,
         chunk |-> ((k - 1) % Len(chunks)) + 1]]

\* the requests the provider may fail in a sweep of n requests: none (0),
\* the first or the last
FailPoints(n) == {0, 1, n}

\* the requests of AnalyseDocument and its return, which unlocks the mutex.
\* The sweep reads and writes nothing shared between its requests, so it is
\* one step: the provider answers every request of the sweep with the text
\* `answer` or fails request number failAt, and under a cancelled context
\* the first request fails. An error makes AnalyseDocument return "" and the
\* error at once; otherwise it returns the text built from all answers.
Sweep(t) ==
    LET me == th[t]
        reqs == SweepRequests(SweepRules, me.chunks)
    IN  /\ me.pc = "request"
        /\ mutex' = 0
        /\ \E failAt \in FailPoints(Len(reqs)), answer \in Responses :
              /\ (backend = "ollama" /\ ctxCancelled[t]) => failAt = 1
              /\ IF failAt # 0
                 THEN /\ th' = [th EXCEPT ![t] = IdleThread]
                      /\ hobs' = [hobs EXCEPT
                                    ![t].ret = HandlerResult(me, "BackendError")]
                      /\ cobs' = IF me.direct THEN cobs
                                 ELSE [cobs EXCEPT ![t].result = "BackendError"]
                 ELSE LET text == Built(answer, Len(reqs)) IN
                      /\ th' = [th EXCEPT ![t] =
                                  [me EXCEPT !.pc = "storeAnalysis",
                                             !.chunks = << >>,
                                             !.analysis = text]]
                      /\ hobs' = hobs
                      /\ cobs' = IF me.direct THEN cobs
                                 ELSE [cobs EXCEPT
                                         ![t].hist = Append(@, HasJsonArray(text)),
                                         ![t].last = text]
        /\ UNCHANGED << documents, backend, call, cancel, ctxCancelled,
                        retryPromptFile >>

\* l.documents.StoreAnalysis(uri, analysis), in updateDocumentStore and in
\* the change handler
StoreAnalysisStep(t) ==
    LET me == th[t] IN
    /\ me.pc = "storeAnalysis"
    /\ documents' = StoreAnalysis(documents, me.uri, me.analysis).docs
    /\ th' = [th EXCEPT ![t].pc = "unmarshal"]
    /\ UNCHANGED << backend, call, mutex, cancel, ctxCancelled, retryPromptFile,
                    cobs, hobs >>

\* a faulty variant of RetryDecision: the loop without its break, which goes
\* round until the last attempt whatever parsing returned
RetryDecisionWithoutBreak(err, attempts) ==
    IF attempts < maxRetries THEN "retry"
    ELSE IF err THEN "return"
    ELSE "break"

\* what the retry loop does with the result of parsing on attempt
\* `attempts`: break out of the loop, go round again, or return the error
RetryDecision(err, attempts) ==
    IF ~err THEN "break"
    ELSE IF attempts < maxRetries THEN "retry"
    ELSE "return"

\* DiagnosticsUnmarshal(uri, analysis) and the branch on its error. The
\* change handler returns the error; the retry loop reloads the retry
\* prompt, prepends it to the text and analyses again, up to maxRetries.
UnmarshalStep(t) ==
    LET me == th[t]
        r == DiagnosticsUnmarshalOf(me.uri, me.analysis)
        todo == IF me.direct THEN (IF r.err THEN "return" ELSE "break")
                ELSE RetryDecision(r.err, me.attempts)
        temp == LoadPrompt(retryPromptFile).val
    IN  /\ me.pc = "unmarshal"
        /\ CASE todo = "break" ->
                  /\ th' = [th EXCEPT ![t] = [me EXCEPT !.pc = "update",
                                                        !.diagnostics = r.val]]
                  /\ UNCHANGED << cobs, hobs >>
             [] todo = "retry" ->
                  /\ th' = [th EXCEPT ![t] =
                              CallAnalyseDocument(
                                  [me EXCEPT !.attempts = me.attempts + 1,
                                             !.instruction = temp,
                                             !.analysis = << >>])]
                  /\ UNCHANGED << cobs, hobs >>
             [] todo = "return" ->
                  /\ th' = [th EXCEPT ![t] = IdleThread]
                  /\ hobs' = [hobs EXCEPT
                                ![t].ret = HandlerResult(me, "ExtractionError")]
                  /\ cobs' = IF me.direct THEN cobs
                             ELSE [cobs EXCEPT ![t].result = "ExtractionError"]
        /\ UNCHANGED << documents, backend, call, mutex, cancel, ctxCancelled,
                        retryPromptFile >>

\* l.documents.UpdateDiagnostics(uri, diagnostics): the last step of
\* updateDocumentStore; in the change handler the call of
\* updateDocumentStore follows it
UpdateStep(t) ==
    LET me == th[t] IN
    /\ me.pc = "update"
    /\ documents' = UpdateDiagnostics(documents, me.uri, me.diagnostics).docs
    /\ IF me.direct
       THEN /\ th' = [th EXCEPT ![t] =
                        CallUpdateDocumentStore(me.h, me.uri, me.text)]
            /\ hobs' = [hobs EXCEPT ![t].updates = @ + 1]
            /\ cobs' = cobs
       ELSE /\ th' = [th EXCEPT ![t] = IdleThread]
            /\ hobs' = [hobs EXCEPT ![t].ret = "nil", ![t].updates = @ + 1]
            /\ cobs' = [cobs EXCEPT ![t].result = "nil", ![t].updates = @ + 1]
    /\ UNCHANGED << backend, call, mutex, cancel, ctxCancelled, retryPromptFile >>

\* the one request of CompleteCode and its return, which unlocks the mutex
CompleteRequest(t) ==
    LET me == th[t] IN
    /\ me.pc = "complete"
    /\ mutex' = 0
    /\ th' = [th EXCEPT ![t] = IdleThread]
    /\ \E ok \in BOOLEAN :
          /\ (backend = "ollama" /\ ctxCancelled[t]) => ~ok
          /\ hobs' = [hobs EXCEPT ![t].ret = IF ok THEN "nil" ELSE "BackendError"]
    /\ UNCHANGED << documents, backend, call, cancel, ctxCancelled, retryPromptFile,
                    cobs >>

\* a handler is dispatched to goroutine t
Entry(t) ==
    \/ OnDidOpenTextDocument(t)
    \/ OnDidChangeTextDocument(t)
    \/ OnDidSaveTextDocument(t)
    \/ OnCompletion(t)

\* goroutine t takes the next step of its handler
Step(t) ==
    \/ StoreStep(t)
    \/ Lock(t)
    \/ Sweep(t)
    \/ StoreAnalysisStep(t)
    \/ UnmarshalStep(t)
    \/ UpdateStep(t)
    \/ CompleteRequest(t)

\* the handlers run one after the other, on one goroutine
Next == Entry(1) \/ Step(1)

Spec == Init /\ [][Next]_vars

\* the handlers run concurrently: two requests, each on a goroutine of its
\* own, an open notification (a cycle of AnalyseDocument calls) or a
\* completion request (a CompleteCode call). The concurrent runs draw the
\* texts and the answers of the provider from two values each: the empty
\* text and a text, an answer without a JSON array and an answer with one.
ConcurrentTexts == { << >>, << "a" >> }

ConcurrentSweepTexts ==
    { Built(answer, n) :
        answer \in { << "x" >>, << "[", "{", "o1", "}", "]" >>,
                     << "[", "{", "o2", "}", ",", "{", "o1", "}", "]",
                        "[", "{", "x", "}", "]" >> },
        n \in {1, NumRules} }

\* a request arrives for goroutine t, which has served none yet
ConcurrentOpen(t) ==
    /\ hobs[t].h = "none"
    /\ OnDidOpenTextDocument(t)
    /\ th'[t].text \in ConcurrentTexts

ConcurrentCompletion(t) ==
    /\ hobs[t].h = "none"
    /\ OnCompletion(t)

ConcurrentSweep(t) ==
    /\ Sweep(t)
    /\ th'[t].analysis \in ConcurrentSweepTexts \cup { << >> }

NextConcurrent ==
    \E t \in Threads :
        \/ ConcurrentOpen(t)
        \/ ConcurrentCompletion(t)
        \/ StoreStep(t)
        \/ Lock(t)
        \/ ConcurrentSweep(t)
        \/ StoreAnalysisStep(t)
        \/ UnmarshalStep(t)
        \/ UpdateStep(t)
        \/ CompleteRequest(t)

SpecConcurrent == Init /\ [][NextConcurrent]_vars

(***************************************************************************)
(* The store on its own: every operation of lspDocuments called with every *)
(* argument, in any order.                                                 *)
(***************************************************************************)
StoreURIs == {"a.c", "b.c"}

\* analysis texts: the empty text and a text
AnalysisTexts == { << >>, << "x", "\n" >> }

\* diagnostic lists: the nil list, the empty list, lists of one and of two
DiagnosticLists ==
    { NilSlice, MakeSlice(<< >>), MakeSlice(<< Members["o1"] >>),
      MakeSlice(<< Members["o2"], Members["o1"] >>) }

Called(op, uri, arg, err) == [op |-> op, uri |-> uri, arg |-> arg, err |-> err]

CallLoad ==
    \E uri \in StoreURIs :
        LET r == Load(documents, uri) IN
        /\ call' = Called("Load", uri, r.val, r.err)
        /\ UNCHANGED documents

CallStore ==
    \E uri \in StoreURIs, data \in Texts :
        LET r == Store(documents, uri, data) IN
        /\ call' = Called("Store", uri, data, r.err)
        /\ documents' = r.docs

CallDelete ==
    \E uri \in StoreURIs :
        LET r == Delete(documents, uri) IN
        /\ call' = Called("Delete", uri, << >>, r.err)
        /\ documents' = r.docs

CallStoreAnalysis ==
    \E uri \in StoreURIs, analysis \in AnalysisTexts :
        LET r == StoreAnalysis(documents, uri, analysis) IN
        /\ call' = Called("StoreAnalysis", uri, analysis, r.err)
        /\ documents' = r.docs

CallLoadAnalysis ==
    \E uri \in StoreURIs :
        LET r == LoadAnalysis(documents, uri) IN
        /\ call' = Called("LoadAnalysis", uri, r.val, r.err)
        /\ UNCHANGED documents

CallGetDiagnostics ==
    \E uri \in StoreURIs :
        LET r == GetDiagnostics(documents, uri) IN
        /\ call' = Called("GetDiagnostics", uri, r.val, r.err)
        /\ UNCHANGED documents

CallUpdateDiagnostics ==
    \E uri \in StoreURIs, diagnostics \in DiagnosticLists :
        LET r == UpdateDiagnostics(documents, uri, diagnostics) IN
        /\ call' = Called("UpdateDiagnostics", uri, diagnostics, r.err)
        /\ documents' = r.docs

NextStore ==
    /\ \/ CallLoad
       \/ CallStore
       \/ CallDelete
       \/ CallStoreAnalysis
       \/ CallLoadAnalysis
       \/ CallGetDiagnostics
       \/ CallUpdateDiagnostics
    /\ UNCHANGED << backend, mutex, cancel, ctxCancelled, retryPromptFile,
                    th, cobs, hobs >>

InitStore ==
    /\ documents = NewLspDocuments
    /\ backend = "ollama"
    /\ mutex = 0
    /\ cancel = 0
    /\ ctxCancelled = [t \in Threads |-> FALSE]
    /\ retryPromptFile = [ok |-> FALSE, content |-> << >>]
    /\ th = [t \in Threads |-> IdleThread]
    /\ cobs = [t \in Threads |-> NoCycle]
    /\ hobs = [t \in Threads |-> NoHandler]
    /\ call = NoCall

SpecStore == InitStore /\ [][NextStore]_vars

(***************************************************************************)
(* The functions on their own: DiagnosticsUnmarshal, the chunker and the   *)
(* sweep of an adapter, each called with arguments of every shape.         *)
(***************************************************************************)
\* s1 \o s2 \o ... for a sequence of sequences
RECURSIVE Flatten(_)
Flatten(ss) == IF ss = << >> THEN << >> ELSE Head(ss) \o Flatten(Tail(ss))

\* bracketed spans that are JSON arrays of diagnostic objects, each with
\* the objects it holds
SpanEntries ==
    ( << "[", "{", "o1", "}", "]" >> :> << Members["o1"] >> ) @@
    ( << "[", " ", "{", "o2", "}", ",", "\n", "{", "o1", "}", " ", "]" >>
          :> << Members["o2"], Members["o1"] >> ) @@
    ( << "[", "{", "o3", "}", ",", "{", " ", "}", "]" >>
          :> << Members["o3"], ZeroDiagnostic >> )

WellFormedSpans == DOMAIN SpanEntries

\* bracketed spans that are not JSON: an illegal character, a missing comma,
\* a missing brace, no object at all
MalformedSpans ==
    { << "[", "{", "x", "}", "]" >>,
      << "[", "{", "o1", "}", "{", "o2", "}", "]" >>,
      << "[", "{", "x", "]" >>,
      << "[", "x", "]" >> }

\* text between spans
Fillers == { << "x" >>, << "\n" >> }

\* provider texts: up to three pieces, each a span or a filler
PieceLists ==
    LET Pieces == WellFormedSpans \cup MalformedSpans \cup Fillers IN
    UNION { [1..n -> Pieces] : n \in 1..3 }

Returned(op, uri, arg, val, err) ==
    [op |-> op, uri |-> uri, arg |-> arg, val |-> val, err |-> err]

\* each function is called once, on the state after construction
CallDiagnosticsUnmarshal ==
    \E uri \in StoreURIs, pieces \in PieceLists :
        LET r == DiagnosticsUnmarshal(uri, Flatten(pieces)) IN
        /\ call = NoCall
        /\ call' = Returned("DiagnosticsUnmarshal", uri, pieces, r.val, r.err)

\* documents of up to MaxLines lines, enough for three chunks
MaxLines == 61

\* the lines of a document: "a" and the empty line in turn, under a first
\* line that is "a" or the line of the retry prompt
LineLists ==
    { [j \in 1..n |-> IF j = 1 THEN first
                      ELSE IF j % 2 = 1 THEN << "a" >> ELSE << >>] :
        n \in 1..MaxLines, first \in { << "a" >>, << "p" >> } }

\* the text of the lines: a newline between one line and the next
RECURSIVE JoinLines(_)
JoinLines(lines) ==
    IF Len(lines) = 1 THEN lines[1]
    ELSE lines[1] \o << "\n" >> \o JoinLines(Tail(lines))

CallPreprocessDocument ==
    \E lines \in LineLists, file \in RetryPromptFiles :
        /\ call = NoCall
        /\ call' = Returned("preprocessDocument", "",
                            [lines |-> lines, file |-> file],
                            preprocessDocument(JoinLines(lines), file), FALSE)

\* what b.request sends for the k-th request of a sweep: the system prompt,
\* for the OpenAI adapter with the rule (0: no rule), and the query naming
\* the file, the number of the chunk and the chunk
RequestOf(uri, req, chunks) ==
    [prompt |-> "systemPrompt",
     rule |-> IF backend = "openai" THEN req.rule ELSE 0,
     uri |-> uri, chunkNo |-> req.chunk, chunk |-> chunks[req.chunk]]

\* providers: one that answers every request alike and one whose answer
\* names the rule and the chunk of the request
Responders == {"same", "echo"}

Answer(responder, request) ==
    IF responder = "same" THEN << "[", "{", "o1", "}", "]" >>
    ELSE << "x", ToString(request.rule), ",", ToString(request.chunkNo) >>

\* the errors of the provider
ProviderErrors == {"timeout", "unauthorized"}

\* the chunk loop of AnalyseDocument over the requests k..last of reqs: the
\* requests sent, the text appended to responseBuilder and the error met.
\* The provider fails request number failure.at (0: none) with failure.err,
\* and the first error ends the loop.
RECURSIVE ChunkLoop(_, _, _, _, _, _, _)
ChunkLoop(uri, reqs, chunks, k, last, responder, failure) ==
    IF k > last THEN [issued |-> << >>, text |-> << >>, err |-> "nil"]
    ELSE LET request == RequestOf(uri, reqs[k], chunks) IN
         IF k = failure.at
         THEN [issued |-> << request >>, text |-> << >>, err |-> failure.err]
         ELSE LET rest == ChunkLoop(uri, reqs, chunks, k + 1, last,
                                    responder, failure)
              IN  [issued |-> << request >> \o rest.issued,
                   text |-> IF rest.err # "nil" THEN << >>
                            ELSE Answer(responder, request) \o << "\n" >>
                                   \o rest.text,
                   err |-> rest.err]

\* a faulty variant of RequestLoop: the loops go on after a request that
\* failed and return the error at their end
RECURSIVE RequestLoopContinuing(_, _, _, _, _, _)
RequestLoopContinuing(uri, reqs, chunks, k, responder, failure) ==
    IF k > Len(reqs) THEN [issued |-> << >>, text |-> << >>, err |-> "nil"]
    ELSE LET last == k + Len(chunks) - 1
             before == ChunkLoop(uri, reqs, chunks, k, last, responder, failure)
             after == IF before.err = "nil" THEN before
                      ELSE ChunkLoop(uri, reqs, chunks, failure.at + 1, last,
                                     responder, [failure EXCEPT !.at = 0])
             rest == RequestLoopContinuing(uri, reqs, chunks, last + 1,
                                           responder, failure)
         IN  [issued |-> IF before.err = "nil" THEN before.issued \o rest.issued
                         ELSE before.issued \o after.issued \o rest.issued,
              text |-> IF before.err # "nil" \/ rest.err # "nil" THEN << >>
                       ELSE before.text \o rest.text,
              err |-> IF before.err # "nil" THEN before.err ELSE rest.err]

\* the request loops of AnalyseDocument from the k-th request on, the first
\* of a pass of the chunk loop: the requests sent, the text of
\* responseBuilder and the error returned. The Ollama adapter runs the
\* chunk loop once, the OpenAI adapter once for every rule; the first error
\* ends the loops with "" and the error as it is.
RECURSIVE RequestLoop(_, _, _, _, _, _)
RequestLoop(uri, reqs, chunks, k, responder, failure) ==
    IF k > Len(reqs) THEN [issued |-> << >>, text |-> << >>, err |-> "nil"]
    ELSE LET pass == ChunkLoop(uri, reqs, chunks, k, k + Len(chunks) - 1,
                               responder, failure)
         IN  IF pass.err # "nil" THEN pass
             ELSE LET rest == RequestLoop(uri, reqs, chunks, k + Len(chunks),
                                          responder, failure)
                  IN  [issued |-> pass.issued \o rest.issued,
                       text |-> IF rest.err # "nil" THEN << >>
                                ELSE pass.text \o rest.text,
                       err |-> rest.err]

\* documents of one, two and three chunks
SweepLineLists == { lines \in LineLists : Len(lines) \in {1, 31, MaxLines} }

\* AnalyseDocument(uri, document) of the adapter installed
CallSweep ==
    \E uri \in URIs, lines \in SweepLineLists, responder \in Responders,
       err \in ProviderErrors :
        LET chunks == preprocessDocument(JoinLines(lines), retryPromptFile)
            reqs == SweepRequests(SweepRules, chunks)
        IN  \E at \in FailPoints(Len(reqs)) \cup {2} :
              LET failure == [at |-> at, err |-> err]
                  r == RequestLoop(uri, reqs, chunks, 1, responder, failure)
              IN  /\ call = NoCall
                  /\ call' = Returned("AnalyseDocument", uri,
                                      [chunks |-> chunks, responder |-> responder,
                                       failure |-> failure],
                                      [issued |-> r.issued, text |-> r.text,
                                       err |-> r.err],
                                      r.err # "nil")

NextFunctions ==
    /\ \/ CallDiagnosticsUnmarshal
       \/ CallPreprocessDocument
       \/ CallSweep
    /\ UNCHANGED << documents, backend, mutex, cancel, ctxCancelled,
                    retryPromptFile, th, cobs, hobs >>

SpecFunctions == Init /\ [][NextFunctions]_vars

(***************************************************************************)
(* The server while the retry prompt file is rewritten under it: open      *)
(* events on one goroutine, and the file changing between any two steps.   *)
(* call keeps the file as it was when the server started.                  *)
(***************************************************************************)
\* the retry prompt file is rewritten, removed or made unreadable
WriteRetryPromptFile ==
    \E file \in RetryPromptFiles :
        /\ file # retryPromptFile
        /\ retryPromptFile' = file
        /\ UNCHANGED << documents, backend, mutex, cancel, ctxCancelled, th,
                        cobs, hobs, call >>

NextPrompts ==
    \/ WriteRetryPromptFile
    \/ OnDidOpenTextDocument(1)
    \/ StoreStep(1)
    \/ Lock(1)
    \/ Sweep(1)
    \/ StoreAnalysisStep(1)
    \/ UnmarshalStep(1)
    \/ UpdateStep(1)

InitPrompts ==
    /\ documents = NewLspDocuments
    /\ backend \in BackendKinds
    /\ mutex = 0
    /\ cancel = 0
    /\ ctxCancelled = [t \in Threads |-> FALSE]
    /\ retryPromptFile \in RetryPromptFiles
    /\ th = [t \in Threads |-> IdleThread]
    /\ cobs = [t \in Threads |-> NoCycle]
    /\ hobs = [t \in Threads |-> NoHandler]
    /\ call = Called("Start", "", retryPromptFile, FALSE)

SpecPrompts == InitPrompts /\ [][NextPrompts]_vars

(***************************************************************************)
(* The handlers that report the stored diagnostics to the client: OnHover  *)
(* and OnDiagnostic, on a store filled by UpdateDiagnostics.               *)
(***************************************************************************)
\* json.MarshalIndent(d, "", "  "): the JSON text of the diagnostic, taken as
\* one piece of text that names every field of d
MarshalIndent(d) == ToString(d)

\* DiagnosticToJsonMarkup: the heading, the fenced JSON text and the end of
\* the fence; marshalling a struct of strings and an int cannot fail
DiagnosticToJsonMarkup(d) ==
    [val |-> << "#### diagnostics", "\n", "fence json", "\n",
                MarshalIndent(d), "\n", "fence" >>,
     err |-> FALSE]

\* the loop of OnHover from diagnostic k on, value being the text so far
RECURSIVE HoverLoop(_, _, _, _)
HoverLoop(diagnostics, line, k, value) ==
    IF k > Len(diagnostics) THEN value
    ELSE IF diagnostics[k].LineNumber - 1 # line
         THEN HoverLoop(diagnostics, line, k + 1, value)
         ELSE LET r == DiagnosticToJsonMarkup(diagnostics[k]) IN
              IF r.err THEN r.val
              ELSE HoverLoop(diagnostics, line, k + 1, r.val)

\* OnHover(uri, position): the markdown value of the Hover returned, and
\* whether an error was returned instead of a Hover
OnHover(d, uri, line) ==
    LET got == GetDiagnostics(d, uri) IN
    IF got.err THEN [val |-> << >>, err |-> TRUE]
    ELSE [val |-> HoverLoop(got.val.elems, line, 1, << >>), err |-> FALSE]

\* a faulty variant of SeverityOf: a severity that is not known is reported
\* as a warning
SeverityOfUnknownAsWarning(severity) ==
    IF severity = "mandatory" THEN "error" ELSE "warning"

\* the switch of OnDiagnostic over d.Severity
SeverityOf(severity) ==
    CASE severity = "advisory" -> "warning"
      [] severity = "mandatory" -> "error"
      [] OTHER -> "hint"

\* uint(n) of an int n: n + wraps * 2^64
Uint(n) == [wraps |-> IF n < 0 THEN 1 ELSE 0, low |-> n]

\* DiagnosticToPrettyText(d)
DiagnosticToPrettyText(d) ==
    << "\n", "Source: ", d.Source, "\n", "Severity: ", d.Severity, "\n",
       "Recommendation: ", d.Recommendation, "\n" >>

\* the defines.Diagnostic that OnDiagnostic makes of a stored diagnostic
ReportedDiagnostic(uri, d) ==
    [Range |-> [Start |-> [Line |-> Uint(d.LineNumber - 1), Character |-> 0],
                End |-> [Line |-> Uint(d.LineNumber - 1), Character |-> 5]],
     Severity |-> SeverityOf(d.Severity),
     Code |-> << d.Source, " ", d.Rule >>,
     Message |-> d.Description,
     Href |-> << "https://bing.com/search?=", d.Source >>,
     RelatedInformation |-> [Uri |-> uri, Message |-> DiagnosticToPrettyText(d)]]

\* OnDiagnostic(uri): the items of the report returned; the report is empty
\* when GetDiagnostics fails, and no error is returned in any case
OnDiagnostic(d, uri) ==
    LET got == GetDiagnostics(d, uri) IN
    IF got.err THEN [val |-> << >>, err |-> FALSE]
    ELSE [val |-> [k \in DOMAIN got.val.elems |->
                      ReportedDiagnostic(uri, got.val.elems[k])],
          err |-> FALSE]

\* the diagnostic lists reported: the nil list, the empty list, one
\* diagnostic, two on different lines, two on one line, and severities
\* that are empty or unknown
ReportLists ==
    { NilSlice, MakeSlice(<< >>), MakeSlice(<< Members["o1"] >>),
      MakeSlice(<< Members["o2"], Members["o1"] >>),
      MakeSlice(<< Members["o1"], [Members["o1"] EXCEPT !.Rule = "R3"] >>),
      MakeSlice(<< Members["o3"], [Members["o2"] EXCEPT !.Severity = "required"] >>) }

\* zero-based lines hovered over
HoverLines == 0..2

ReportUpdateDiagnostics ==
    \E uri \in StoreURIs, diagnostics \in ReportLists :
        /\ documents' = UpdateDiagnostics(documents, uri, diagnostics).docs
        /\ call' = Returned("UpdateDiagnostics", uri, diagnostics, << >>, FALSE)

\* provider texts of one array of one object: with every member, with a
\* foreign uri, and with no member at all (line_number missing)
ReportPayloads == { << "[", "{", o, "}", "]" >> : o \in DOMAIN Members }

\* the end of a cycle whose sweep returned the payload: DiagnosticsUnmarshal
\* and, on its nil error, UpdateDiagnostics
ReportPayload ==
    \E uri \in StoreURIs, payload \in ReportPayloads :
        LET r == DiagnosticsUnmarshal(uri, payload) IN
        /\ documents' = IF r.err THEN documents
                        ELSE UpdateDiagnostics(documents, uri, r.val).docs
        /\ call' = Returned("DiagnosticsUnmarshal", uri, payload, r.val.elems,
                            r.err)

CallOnHover ==
    \E uri \in StoreURIs, line \in HoverLines :
        LET r == OnHover(documents, uri, line) IN
        /\ call' = Returned("OnHover", uri, line, r.val, r.err)
        /\ UNCHANGED documents

CallOnDiagnostic ==
    \E uri \in StoreURIs :
        LET r == OnDiagnostic(documents, uri) IN
        /\ call' = Returned("OnDiagnostic", uri, << >>, r.val, r.err)
        /\ UNCHANGED documents

NextReport ==
    /\ \/ ReportUpdateDiagnostics
       \/ ReportPayload
       \/ CallOnHover
       \/ CallOnDiagnostic
    /\ UNCHANGED << backend, mutex, cancel, ctxCancelled, retryPromptFile,
                    th, cobs, hobs >>

SpecReport == InitStore /\ [][NextReport]_vars

(***************************************************************************)
(* Properties.  A cycle is one call of updateDocumentStore that got past   *)
(* Store; cobs[t] records the current or last cycle of goroutine t and     *)
(* hobs[t] its current or last handler.                                    *)
(***************************************************************************)
\* the cycle recorded in c has returned, every sweep of it having returned text
CycleReturned(c) == c.result \in {"nil", "ExtractionError"}

\* the objects of the JSON arrays of objects in text s from index b on, in
\* the order of the text
RECURSIVE ArrayObjects(_, _)
ArrayObjects(s, b) ==
    LET o == IndexFrom(s, "[", b) IN
    IF o = 0 THEN << >>
    ELSE LET e == IndexFrom(s, "]", o + 1)
             r == IF e # 0 THEN Unmarshal(SubSeq(s, o, e))
                  ELSE [val |-> NilSlice, err |-> TRUE]
         IN  IF r.err THEN ArrayObjects(s, o + 1)
             ELSE r.val.elems \o ArrayObjects(s, e + 1)

\* the diagnostics of a provider text: the objects of its arrays, each with
\* the uri of the document
PayloadDiagnostics(uri, s) ==
    LET objs == ArrayObjects(s, 1) IN
    [k \in DOMAIN objs |-> [objs[k] EXCEPT !.Uri = uri]]

\* C1: a cycle never runs a sixth sweep, and a cycle in which every sweep
\* returned text without a JSON array of objects that decodes ran exactly
\* 5 sweeps and returned the extraction error.
RetryBoundIsFive ==
    \A t \in Threads :
        LET c == cobs[t] IN
        /\ c.sweeps <= 5
        /\ (CycleReturned(c) /\ \A k \in DOMAIN c.hist : ~c.hist[k])
              => (c.sweeps = 5 /\ c.result = "ExtractionError")

\* C2: a cycle whose first two sweeps returned text without a JSON array
\* and whose third sweep returned text with one ran exactly 3 sweeps and
\* returned success, and GetDiagnostics then yields the diagnostics of the
\* text of the third sweep.
ThirdAttemptSucceeds ==
    \A t \in Threads :
        LET c == cobs[t] IN
        (/\ CycleReturned(c)
         /\ Len(c.hist) >= 3
         /\ ~c.hist[1] /\ ~c.hist[2] /\ c.hist[3])
            => /\ c.sweeps = 3
               /\ c.result = "nil"
               /\ GetDiagnostics(documents, c.uri) =
                     [val |-> MakeSlice(PayloadDiagnostics(c.uri, c.last)),
                      err |-> FALSE]

\* a cycle has returned success on its third sweep after two sweeps without
\* an array, and the store holds diagnostics for its uri
ThirdAttemptSucceeded ==
    \E t \in Threads :
        /\ cobs[t].result = "nil"
        /\ cobs[t].hist = << FALSE, FALSE, TRUE >>
        /\ cobs[t].sweeps = 3
        /\ GetDiagnostics(documents, cobs[t].uri).val.elems # << >>

SameHashEventIsSkipped ==
    \A t \in Threads :
        LET h == hobs[t] IN
        (h.h \in {"open", "change", "save"} /\ h.same)
            => /\ h.calls = 0
               /\ documents.analysis = h.docs0.analysis
               /\ documents.diagnostics = h.docs0.diagnostics

\* C5: Store(uri, T) called right after Store(uri, T) reports the text as
\* stored already and leaves text, hash, analysis text and diagnostics of
\* every uri as the first call left them. In a state whose last call was
\* Store(uri, T), that second call is Store applied to the store as it is.
StoreTwiceIsStoreOnce ==
    call.op = "Store"
        => LET second == Store(documents, call.uri, call.arg) IN
           /\ second.err
           /\ second.docs = documents
           /\ Load(second.docs, call.uri).val = call.arg

\* the last call of the store was a Store that reported the text as stored
\* already, for a uri with analysis text and diagnostics
StoredAlready ==
    /\ call.op = "Store"
    /\ call.err
    /\ Load(documents, call.uri).val = call.arg
    /\ ~LoadAnalysis(documents, call.uri).err
    /\ ~GetDiagnostics(documents, call.uri).err

\* C6: a goroutine that has called AnalyseDocument or CompleteCode is not
\* queued behind a request in flight: it can take the adapter at once.
NewestRequestWins ==
    \A t \in Threads : th[t].pc = "lock" => ENABLED Lock(t)

\* C7: UpdateDiagnostics is called in a cycle only with at least one
\* diagnostic decoded; spans found of which none decodes are a failure of
\* the attempt.
SucceededOnlyWithDiagnostics ==
    \A t \in Threads :
        (th[t].pc = "update" /\ ~th[t].direct)
            => th[t].diagnostics.elems # << >>

\* C8: GetDiagnostics reports "not found" for a uri exactly when
\* UpdateDiagnostics was never called for it. A key of the diagnostics map
\* is a uri UpdateDiagnostics was called for: no operation removes a key.
NotFoundOnlyBeforeFirstUpdate ==
    \A uri \in URIs :
        GetDiagnostics(documents, uri).err
            <=> uri \notin DOMAIN documents.diagnostics

\* C9: after UpdateDiagnostics(uri, D1) and then UpdateDiagnostics(uri, D2),
\* GetDiagnostics(uri) returns D2 as it is, whatever the lists D1 and D2.
UpdateReplacesWholesale ==
    [][(/\ call.op = "UpdateDiagnostics"
        /\ call'.op = "UpdateDiagnostics"
        /\ call'.uri = call.uri)
          => GetDiagnostics(documents', call'.uri) =
                [val |-> call'.arg, err |-> FALSE]]_vars

\* C10: when a handler parses the text of a sweep, that text is the stored
\* analysis text of the uri; and after a cycle that returned the extraction
\* error LoadAnalysis yields the text of its last sweep.
RawTextStoredBeforeParsing ==
    \A t \in Threads :
        /\ th[t].pc = "unmarshal"
              => /\ th[t].analysis # << >>
                 /\ LoadAnalysis(documents, th[t].uri) =
                       [val |-> th[t].analysis, err |-> FALSE]
        /\ cobs[t].result = "ExtractionError"
              => /\ Len(cobs[t].hist) = maxRetries
                 /\ LoadAnalysis(documents, cobs[t].uri) =
                       [val |-> cobs[t].last, err |-> FALSE]

\* a cycle has returned the extraction error for a uri that had another
\* analysis text before it
FailedCycleOverAnalysis ==
    \E t \in Threads :
        /\ cobs[t].result = "ExtractionError"
        /\ ~LoadAnalysis(cobs[t].docs0, cobs[t].uri).err
        /\ LoadAnalysis(cobs[t].docs0, cobs[t].uri).val # cobs[t].last
        /\ LoadAnalysis(documents, cobs[t].uri).val = cobs[t].last

\* C11: after a cycle that returned success on a text with a JSON array of
\* diagnostic objects, GetDiagnostics yields the objects of the text in the
\* order of the text, each with the uri of the document as its Uri,
\* whatever uri the text gave it.
SucceededCycleStoresPayload ==
    \A t \in Threads :
        LET c == cobs[t]
            got == GetDiagnostics(documents, c.uri)
            objs == ArrayObjects(c.last, 1)
        IN  (c.result = "nil" /\ HasJsonArray(c.last))
               => /\ ~got.err
                  /\ Len(got.val.elems) = Len(objs)
                  /\ \A k \in DOMAIN objs :
                        /\ got.val.elems[k].Uri = c.uri
                        /\ got.val.elems[k] = [objs[k] EXCEPT !.Uri = c.uri]

\* a cycle has returned success and the store holds for its uri two
\* diagnostics, the first one decoded from an object that named another uri
PayloadWithForeignUriStored ==
    \E t \in Threads :
        /\ cobs[t].result = "nil"
        /\ ArrayObjects(cobs[t].last, 1) = << Members["o2"], Members["o1"] >>
        /\ Members["o2"].Uri \notin {"", cobs[t].uri}
        /\ GetDiagnostics(documents, cobs[t].uri).val.elems =
              << [Members["o2"] EXCEPT !.Uri = cobs[t].uri],
                 [Members["o1"] EXCEPT !.Uri = cobs[t].uri] >>

\* the pieces of list ps that are in set S, as indexes
PiecesIn(ps, S) == { k \in DOMAIN ps : ps[k] \in S }

\* C12: from a text with one well-formed and one malformed bracketed span,
\* in either order, DiagnosticsUnmarshal returns the entries of the
\* well-formed span, each with the uri, and no error.
MalformedSpanIsSkipped ==
    (/\ call.op = "DiagnosticsUnmarshal"
     /\ Cardinality(PiecesIn(call.arg, WellFormedSpans)) = 1
     /\ Cardinality(PiecesIn(call.arg, MalformedSpans)) = 1)
        => LET w == CHOOSE k \in DOMAIN call.arg : call.arg[k] \in WellFormedSpans
               entries == SpanEntries[call.arg[w]]
           IN  /\ ~call.err
               /\ call.val = MakeSlice([k \in DOMAIN entries |->
                                           [entries[k] EXCEPT !.Uri = call.uri]])

\* DiagnosticsUnmarshal has returned two entries from a text whose malformed
\* span comes before its well-formed span
SkippedBeforeWellFormed ==
    /\ call.op = "DiagnosticsUnmarshal"
    /\ Len(call.arg) = 2
    /\ call.arg[1] \in MalformedSpans
    /\ call.arg[2] \in WellFormedSpans
    /\ ~call.err
    /\ Len(call.val.elems) = 2

\* C13: for a text of L lines the chunker returns ceil(L/30) chunks, and
\* chunk i holds the lines (i-1)*30+1 .. min(i*30, L) of the text in order,
\* each under its line number in the text.
ChunksAreTheLinesInOrder ==
    call.op = "preprocessDocument"
        => LET lines == call.arg.lines
               L == Len(lines)
               chunks == call.val
           IN  /\ Len(chunks) = (L + 29) \div 30
               /\ \A i \in DOMAIN chunks :
                     LET from == (i - 1) * 30
                         to == IF i * 30 < L THEN i * 30 ELSE L
                     IN  chunks[i] = [j \in 1..(to - from) |->
                                         [line |-> from + j,
                                          content |-> lines[from + j]]]

\* C14: for every text T and retry prompt P the chunker returns for P + T
\* the chunks it returns for T.
PromptPrefixChangesNoChunk ==
    call.op = "preprocessDocument"
        => LET P == LoadPrompt(call.arg.file).val
               T == JoinLines(call.arg.lines)
           IN  preprocessDocument(P \o T, call.arg.file) = call.val

\* the request the adapter is to send for chunk c of the sweep in call,
\* under rule r (0: no rule)
ExpectedRequest(r, c) ==
    [prompt |-> "systemPrompt", rule |-> r, uri |-> call.uri, chunkNo |-> c,
     chunk |-> call.arg.chunks[c]]

\* text is the texts of answers, n of them, one after the other, each of
\* the same length
AnswersInOrder(text, answers, n) ==
    /\ Len(text) = n * Len(answers[1])
    /\ \A k \in 1..n :
          SubSeq(text, (k - 1) * Len(answers[1]) + 1, k * Len(answers[1]))
             = answers[k]

\* C17: a sweep of the Ollama adapter over C chunks that met no error has
\* sent C requests, the k-th for chunk k, and returns the answers in that
\* order, a newline after each.
WholeChunkSweepInChunkOrder ==
    (call.op = "AnalyseDocument" /\ backend = "ollama" /\ ~call.err)
        => LET C == Len(call.arg.chunks) IN
           /\ Len(call.val.issued) = C
           /\ \A c \in 1..C : call.val.issued[c] = ExpectedRequest(0, c)
           /\ AnswersInOrder(call.val.text,
                             [c \in 1..C |->
                                Answer(call.arg.responder, ExpectedRequest(0, c))
                                   \o << "\n" >>], C)

\* the Ollama adapter has returned from a sweep over three chunks the three
\* answers of a provider whose answers differ
WholeChunkSweepOfThree ==
    /\ call.op = "AnalyseDocument"
    /\ backend = "ollama"
    /\ ~call.err
    /\ call.arg.responder = "echo"
    /\ Len(call.val.issued) = 3
    /\ call.val.text = << "x", "0", ",", "1", "\n", "x", "0", ",", "2", "\n",
                          "x", "0", ",", "3", "\n" >>

\* C18: a sweep of the OpenAI adapter over 29 rules and C chunks that met
\* no error has sent 29 * C requests, all chunks under rule 1, then all
\* chunks under rule 2 and so on, each with the system prompt and its one
\* rule, and returns the answers in that order, a newline after each.
RuleSweepInRuleMajorOrder ==
    (call.op = "AnalyseDocument" /\ backend = "openai" /\ ~call.err)
        => LET C == Len(call.arg.chunks) IN
           /\ Len(call.val.issued) = 29 * C
           /\ \A r \in 1..29, c \in 1..C :
                 call.val.issued[(r - 1) * C + c] = ExpectedRequest(r, c)
           /\ AnswersInOrder(call.val.text,
                             [k \in 1..(29 * C) |->
                                Answer(call.arg.responder,
                                       ExpectedRequest(((k - 1) \div C) + 1,
                                                       ((k - 1) % C) + 1))
                                   \o << "\n" >>], 29 * C)

\* the OpenAI adapter has returned from a sweep over three chunks the
\* answers of a provider whose answers differ
RuleSweepOfThree ==
    /\ call.op = "AnalyseDocument"
    /\ backend = "openai"
    /\ ~call.err
    /\ call.arg.responder = "echo"
    /\ Len(call.arg.chunks) = 3
    /\ Len(call.val.issued) = 87
    /\ SubSeq(call.val.text, 1, 10) =
          << "x", "1", ",", "1", "\n", "x", "1", ",", "2", "\n" >>

\* C19: a sweep in which the provider failed a request has sent the
\* requests up to that one, each once, and none after it, and returns the
\* error of the provider as it is, with no text.
SweepEndsAtFirstError ==
    (call.op = "AnalyseDocument" /\ call.err)
        => LET issued == call.val.issued
               n == call.arg.failure.at
           IN  /\ call.val.err = call.arg.failure.err
               /\ Len(issued) = n
               /\ \A j, k \in 1..Len(issued) : j # k => issued[j] # issued[k]
               /\ call.val.text = << >>

\* a sweep has ended on an error of its second request, of three or more
SweepFailedMidway ==
    /\ call.op = "AnalyseDocument"
    /\ call.err
    /\ call.val.err = "unauthorized"
    /\ call.arg.failure.at = 2
    /\ Len(call.val.issued) = 2
    /\ Len(call.arg.chunks) = 3

\* C15: after Delete(uri) nothing of the uri is left: Load, LoadAnalysis
\* and GetDiagnostics of the uri return an error, and Store of the uri
\* returns nil for every text, the text stored before the Delete included.
DeleteRemovesAllState ==
    call.op = "Delete"
        => /\ Load(documents, call.uri).err
           /\ LoadAnalysis(documents, call.uri).err
           /\ GetDiagnostics(documents, call.uri).err
           /\ \A data \in Texts : ~Store(documents, call.uri, data).err

\* C16: after Store(uri, text) returned nil, Load(uri) returns text and nil,
\* the empty text included; and Load of a uri returns an error exactly when
\* the uri has no text stored (never stored, or deleted since).
LoadReturnsStoredText ==
    /\ (call.op = "Store" /\ ~call.err)
          => Load(documents, call.uri) = [val |-> call.arg, err |-> FALSE]
    /\ \A uri \in StoreURIs :
          Load(documents, uri).err <=> uri \notin DOMAIN documents.data

\* C20: cycles of one uri are serialized. When two cycles of the same uri,
\* started by events with different texts, have both returned nil, the
\* store holds the text of the cycle that stored last and the diagnostics
\* of that same cycle, never those of the other. The cycle that stored last
\* is the one that found the text of the other in the store (docs0).
CyclesOfOneUriAreSerialized ==
    \A t \in Threads : \A u \in Threads \ {t} :
        ( /\ cobs[t].result = "nil"
          /\ cobs[u].result = "nil"
          /\ cobs[t].uri = cobs[u].uri
          /\ cobs[t].uri \in DOMAIN cobs[t].docs0.data )
           => GetDiagnostics(documents, cobs[t].uri).val.elems
                 = PayloadDiagnostics(cobs[t].uri, cobs[t].last)

\* the diagnostics of the uri hovered over that are on the line hovered
\* over (lineNumber - 1 is the zero-based line)
OnHoveredLine ==
    LET elems == MapGet(documents.diagnostics, call.uri, NilSlice).elems IN
    { k \in DOMAIN elems : elems[k].LineNumber - 1 = call.arg }

\* the text holds the piece
HoldsPiece(text, piece) == \E k \in DOMAIN text : text[k] = piece

\* C21: OnHover(uri, line) returns no error; the markdown it returns holds
\* the rendering of every diagnostic of the uri on that line, and is empty
\* when there is none, also for a uri without diagnostics.
HoverRendersTheLine ==
    call.op = "OnHover"
        => LET elems == MapGet(documents.diagnostics, call.uri, NilSlice).elems IN
           /\ ~call.err
           /\ \A k \in OnHoveredLine :
                 HoldsPiece(call.val, MarshalIndent(elems[k]))
           /\ OnHoveredLine = {} => call.val = << >>

\* C22: OnDiagnostic reports every stored diagnostic of the uri, the k-th
\* with the severity its severity string maps to: "advisory" to warning,
\* "mandatory" to error, every other string, the empty one included, to hint.
SeverityIsTotalMapping ==
    call.op = "OnDiagnostic"
        => LET elems == MapGet(documents.diagnostics, call.uri, NilSlice).elems IN
           /\ ~call.err
           /\ Len(call.val) = Len(elems)
           /\ \A k \in DOMAIN elems :
                 call.val[k].Severity =
                    IF elems[k].Severity = "advisory" THEN "warning"
                    ELSE IF elems[k].Severity = "mandatory" THEN "error"
                    ELSE "hint"

\* a report of two diagnostics, one with the empty severity and one with a
\* severity that is not known, both reported as hints
UnknownSeveritiesReported ==
    /\ call.op = "OnDiagnostic"
    /\ Len(call.val) = 2
    /\ documents.diagnostics[call.uri].elems[1].Severity = ""
    /\ documents.diagnostics[call.uri].elems[2].Severity = "required"
    /\ call.val[1].Severity = "hint"
    /\ call.val[2].Severity = "hint"

\* C23: a sweep in which a request failed after earlier requests had been
\* answered returns, with the error, the answers gathered up to there: the
\* text built from the requests before the failing one is its result.
PartialOutputIsKept ==
    (call.op = "AnalyseDocument" /\ call.err /\ call.arg.failure.at > 1)
        => LET n == call.arg.failure.at - 1 IN
           AnswersInOrder(call.val.text,
                          [k \in 1..n |->
                             Answer(call.arg.responder, call.val.issued[k])
                                \o << "\n" >>], n)

\* C24: the prompt files are read once, when the server starts. The
\* instruction of every retry is the retry prompt as it was at startup, and
\* the chunks of every sweep are those the chunker makes with the retry
\* prompt as it was at startup, whatever was written to the file since.
PromptFilesReadOnce ==
    \A t \in Threads :
        LET me == th[t]
            atStart == call.arg
            instruction == IF me.attempts > 1 THEN LoadPrompt(atStart).val
                           ELSE << >>
        IN  (call.op = "Start" /\ me.h = "open" /\ me.pc = "request")
               => /\ me.instruction = instruction
                  /\ me.chunks = preprocessDocument(instruction \o me.text, atStart)

\* C25: the analysis of every document event goes through the retry
\* engine: a handler of an open, change or save event that returns the
\* extraction error has run MAX_ATTEMPTS sweeps, never fewer.
EveryEventIsRetried ==
    \A t \in Threads :
        (hobs[t].h \in {"open", "change", "save"}
            /\ hobs[t].ret = "ExtractionError")
           => hobs[t].calls = maxRetries

\* C26: a backend error in attempt k of a cycle, 1 <= k <= 5, ends the
\* cycle at once: the cycle has made k sweeps and makes no other, the
\* handler has the error (open and save return it), UpdateDiagnostics was
\* not called, the diagnostics are those from before the cycle, and the
\* goroutine is free to serve the next event.
BackendErrorEndsCycle ==
    \A t \in Threads :
        LET c == cobs[t] IN
        c.result = "BackendError"
           => /\ c.sweeps \in 1..5
              /\ th[t] = IdleThread
              /\ c.updates = 0
              /\ documents.diagnostics = c.docs0.diagnostics
              /\ hobs[t].h \in {"open", "save"} => hobs[t].ret = "BackendError"
              /\ ENABLED Entry(t)

\* an open event over stored diagnostics has ended on a backend error in
\* its third attempt
BackendErrorInThirdAttempt ==
    /\ cobs[1].result = "BackendError"
    /\ cobs[1].sweeps = 3
    /\ hobs[1].h = "open"
    /\ hobs[1].ret = "BackendError"
    /\ ~GetDiagnostics(documents, cobs[1].uri).err

\* C27: in a cycle of updateDocumentStore, UpdateDiagnostics is called at
\* most once and is the last store operation of the cycle: when it is
\* about to be called it was not called before in the cycle and the stored
\* analysis text is the text of the attempt that succeeded; once it was
\* called the cycle has returned nil; a cycle that returned an error never
\* called it.
UpdateIsLastAndOnce ==
    \A t \in Threads :
        LET me == th[t]
            c == cobs[t]
        IN  /\ c.updates <= 1
            /\ (me.pc = "update" /\ ~me.direct)
                  => /\ c.updates = 0
                     /\ c.last = me.analysis
                     /\ MapGet(documents.analysis, me.uri, << >>) = me.analysis
            /\ c.updates = 1 => (c.result = "nil" /\ me = IdleThread)
            /\ c.result \in {"BackendError", "ExtractionError"} => c.updates = 0

\* a cycle has returned nil after its second attempt, with its one update
UpdatedAfterSecondAttempt ==
    /\ cobs[1].result = "nil"
    /\ cobs[1].sweeps = 2
    /\ cobs[1].updates = 1
    /\ LoadAnalysis(documents, cobs[1].uri).val = cobs[1].last

\* the goroutines inside AnalyseDocument or CompleteCode, past Lock
InSweep == { t \in Threads : th[t].pc \in {"request", "complete"} }

RetryRepeatsTheRequests ==
    \A t \in Threads :
        LET me == th[t] IN
        (me.pc = "request" /\ ~me.direct /\ retryPromptFile.ok)
           => me.chunks = preprocessDocument(me.text, retryPromptFile)

\* C30: with a retry prompt file that cannot be read, a cycle goes on all
\* the same: every retry runs with the empty instruction, on the chunks of
\* the text alone; the cycle returns no error but that of the backend or of
\* the extraction, the latter only after 5 sweeps; and it never makes a 6th.
LoadFailureDoesNotAbort ==
    \A t \in Threads :
        LET me == th[t]
            c == cobs[t]
        IN  ~retryPromptFile.ok
               => /\ (me.pc \in {"lock", "request"} /\ ~me.direct /\ me.h # "completion")
                        => me.instruction = << >>
                  /\ (me.pc = "request" /\ ~me.direct)
                        => me.chunks = ChunksFrom(Split(me.text, "\n"), 0)
                  /\ c.result \in {"none", "running", "AlreadyStored", "nil",
                                   "BackendError", "ExtractionError"}
                  /\ c.result = "ExtractionError" => c.sweeps = 5
                  /\ c.sweeps <= 5

\* with the file unreadable a cycle is in the sweep of its third attempt,
\* with the empty instruction
ThirdAttemptWithoutPrompt ==
    /\ ~retryPromptFile.ok
    /\ th[1].pc = "request"
    /\ ~th[1].direct
    /\ th[1].attempts = 3
    /\ th[1].instruction = << >>

\* C31: after a cycle that ended in an error (of the backend, or of the
\* extraction after the last attempt) the text the cycle stored is still
\* stored, with its hash; a handler of an open or save event that has read
\* its text and delivers one whose hash is the stored one returns nil
\* without a backend request and leaves the store as it is; and while the
\* text delivered is the stored one, a uri whose cycles all failed gets no
\* diagnostics, whatever the event.
FailedTextStaysStored ==
    \A t \in Threads :
        LET c == cobs[t]
            h == hobs[t]
        IN  /\ c.result \in {"BackendError", "ExtractionError"}
                  => /\ c.uri \in DOMAIN documents.data
                     /\ SameHash(documents, c.uri, documents.data[c.uri])
                     /\ ~SameHash(c.docs0, c.uri, documents.data[c.uri])
            /\ (h.h \in {"open", "save"} /\ h.same
                   /\ h.ret \notin {"running", "FileError"})
                  => /\ h.ret = "nil"
                     /\ h.calls = 0
                     /\ documents = h.docs0
            /\ (h.h \in {"open", "save", "change"} /\ h.same
                   /\ h.ret # "FileError"
                   /\ h.uri \in DOMAIN h.docs0.data
                   /\ h.uri \notin DOMAIN h.docs0.diagnostics)
                  => h.uri \notin DOMAIN documents.diagnostics

\* C32: the chunker, given the text of an event alone, loses nothing of
\* it: the contents of the lines of the chunks, one chunk after the other,
\* are the lines of the text, whatever the retry prompt file holds and
\* whatever the text begins with.
ChunkerLosesNoContent ==
    call.op = "preprocessDocument"
        => LET kept == Flatten(call.val) IN
           /\ Len(kept) = Len(call.arg.lines)
           /\ \A j \in DOMAIN kept : kept[j].content = call.arg.lines[j]

\* C33: the diagnostics stored from a provider payload all have a line
\* number of 1 or more, and the zero-based line OnDiagnostic reports for
\* each, the unsigned value of lineNumber - 1, has not wrapped around.
StoredLinesAreOneBased ==
    (call.op = "DiagnosticsUnmarshal" /\ ~call.err)
        => LET stored == GetDiagnostics(documents, call.uri).val.elems
               items == OnDiagnostic(documents, call.uri).val
           IN  /\ \A k \in DOMAIN stored : stored[k].LineNumber >= 1
               /\ \A k \in DOMAIN items :
                     /\ items[k].Range.Start.Line.wraps = 0
                     /\ items[k].Range.Start.Line.low >= 0

\* C34: a change event whose content is not the stored one, once its own
\* analysis has parsed, goes on into a cycle of updateDocumentStore and
\* returns nil whatever that cycle returns; when the cycle too parses on its
\* first attempt the one event has made two sweeps and called
\* UpdateDiagnostics twice.
ChangeEventAnalysesTwice ==
    \A t \in Threads :
        LET h == hobs[t]
            c == cobs[t]
        IN  (h.h = "change" /\ ~h.same /\ h.ret \notin {"running", "FileError"})
               => /\ (h.ret = "nil" \/ c.result # "none")
                        => /\ h.ret = "nil"
                           /\ c.result \in {"nil", "BackendError", "ExtractionError"}
                           /\ h.updates >= 1
                  /\ (c.result = "nil" /\ c.sweeps = 1)
                        => (h.calls = 2 /\ h.updates = 2 /\ c.updates = 1)

\* a change event has returned nil although its cycle of
\* updateDocumentStore ended in a backend error
ChangeReturnedNilOverError ==
    /\ hobs[1].h = "change"
    /\ ~hobs[1].same
    /\ hobs[1].ret = "nil"
    /\ hobs[1].updates = 1
    /\ cobs[1].result = "BackendError"

====
